---- MODULE Spec2Model ----
(***************************************************************************)
(* Interview phase state machine (agent.py, InterviewAgent) over the       *)
(* shared session store (db_driver.py, DatabaseDriver).                    *)
(* The store holds the interview_sessions, recordings and transcripts      *)
(* tables; server.py calls it from the token and delete endpoints.         *)
(*                                                                         *)
(* Time is a logical clock `now`, counted in days.  Strings that the code  *)
(* only stores and never inspects (question, response and note text) are   *)
(* drawn from small sets.  Log entries carry the text, the score and the   *)
(* phase tag; their wall-clock timestamp field is not represented.         *)
(***************************************************************************)
EXTENDS Integers, Sequences, FiniteSets, TLC

VARIABLES agent, interview_sessions, recordings, transcripts, issued, now, calls, op, ret

vars == <<agent, interview_sessions, recordings, transcripts, issued, now, calls, op, ret>>

----------------------------------------------------------------------------
(* Bounds of the model *)

MaxQuestions == 1
MaxResponses == 2
MaxNotes == 1
MaxSessions == 2
MaxTime == 1
MaxCalls == 6
MaxRecordings == 2
MaxTranscripts == 2
MaxServerCalls == 4
MaxCount == 6
MaxTwoCalls == 4

(* Inputs *)

Agents == {1, 2}
Drivers == {1}
Ids == 1 .. MaxSessions
Names == {"Jane Doe"}
Positions == {"Software Engineer"}
QuestionTexts == {"q"}
ResponseTexts == {"r"}
NoteTexts == {"n"}
Scores == {-1, 5, 6}
ScoresInRange == Scores \cap (1 .. 5)
Impressions == {"Promising candidate", "Strong hire"}
DaysOld == {0, 1}
StoreScores == {9, 12}
Configured == BOOLEAN
RecordingIds == 1 .. MaxRecordings
TranscriptIds == 1 .. MaxTranscripts
EgressIds == {"EG_1"}
RoomNames == {"interview-room"}
RecordingStatuses == {"recording", "completed", "failed"}
StorePositions == {"Software Engineer", "Designer"}
StoreData == "{\"questions_asked\": []}"

(* Null values *)

NoId == 0
NullTime == -1
Null == "NULL"
NullInt == -1

(* optional arguments: None or a value *)
Urls == {Null, "s3://bucket/recording.mp4"}
TranscriptUrls == {"s3://bucket/transcript.json"}
Limits == {1, 2, 10}
FileSizes == {NullInt, 1048576}
Durations == {NullInt}
PositionFilters == {Null, "", "Designer"}

----------------------------------------------------------------------------
(* InterviewPhase *)

INTRODUCTION == "introduction"
TECHNICAL == "technical"
BEHAVIORAL == "behavioral"
CLOSING == "closing"
COMPLETED == "completed"

InterviewPhase == <<INTRODUCTION, TECHNICAL, BEHAVIORAL, CLOSING, COMPLETED>>

PhaseIndex(p) == CHOOSE i \in 1 .. Len(InterviewPhase) : InterviewPhase[i] = p

(* str.lower() on the position strings of the model *)
Lower(s) ==
    CASE s = "Software Engineer" -> "software engineer"
      [] s = "Designer" -> "designer"
      [] OTHER -> s

InterviewData ==
    [candidate_name |-> "",
     position |-> "",
     start_time |-> 0,
     current_phase |-> INTRODUCTION,
     questions_asked |-> <<>>,
     responses |-> <<>>,
     notes |-> <<>>,
     technical_score |-> 0,
     behavioral_score |-> 0,
     overall_impression |-> "",
     interview_id |-> NoId,
     question_count |-> 0,
     max_questions_per_phase |-> 5]

----------------------------------------------------------------------------
(* DatabaseDriver: the interview_sessions table and the statements on it *)

NewSessionRow(candidate_name, position, t) ==
    [candidate_name |-> candidate_name,
     position |-> position,
     start_time |-> t,
     end_time |-> NullTime,
     technical_score |-> 0,
     behavioral_score |-> 0,
     overall_impression |-> Null,
     interview_data |-> Null,
     status |-> "in_progress",
     recording_id |-> NoId,
     recording_url |-> Null,
     transcript_url |-> Null,
     recording_status |-> "pending"]

NoPrimaryKey(sessions, interview_id) == FALSE

(* interview_id TEXT PRIMARY KEY: an INSERT of an id that is in the table
   raises sqlite3.IntegrityError *)
PrimaryKeyViolation(sessions, interview_id) == interview_id \in DOMAIN sessions

(* the INSERT of create_interview_session raises: the store is unavailable
   (fail) or uuid4 drew an id that is in use *)
InsertRaises(sessions, interview_id, fail) ==
    fail \/ PrimaryKeyViolation(sessions, interview_id)

create_interview_session(sessions, interview_id, candidate_name, position, t) ==
    [i \in DOMAIN sessions \cup {interview_id} |->
        IF i = interview_id
        THEN NewSessionRow(candidate_name, position, t)
        ELSE sessions[i]]

CompletedRowSwapped(row, technical_score, behavioral_score, overall_impression, interview_data, t) ==
    [row EXCEPT !.end_time = t,
                !.technical_score = behavioral_score,
                !.behavioral_score = technical_score,
                !.overall_impression = overall_impression,
                !.interview_data = interview_data,
                !.status = "completed"]

CompletedRowNoEndTime(row, technical_score, behavioral_score, overall_impression, interview_data, t) ==
    [row EXCEPT !.technical_score = technical_score,
                !.behavioral_score = behavioral_score,
                !.overall_impression = overall_impression,
                !.interview_data = interview_data,
                !.status = "completed"]

CompletedRow(row, technical_score, behavioral_score, overall_impression, interview_data, t) ==
    [row EXCEPT !.end_time = t,
                !.technical_score = technical_score,
                !.behavioral_score = behavioral_score,
                !.overall_impression = overall_impression,
                !.interview_data = interview_data,
                !.status = "completed"]

complete_interview_session_upsert(sessions, interview_id, technical_score, behavioral_score, overall_impression, interview_data, t) ==
    [i \in DOMAIN sessions \cup {interview_id} |->
        CompletedRow(IF i \in DOMAIN sessions THEN sessions[i] ELSE NewSessionRow("", "", t),
                     technical_score, behavioral_score,
                     overall_impression, interview_data, t)]

complete_interview_session_everywhere(sessions, interview_id, technical_score, behavioral_score, overall_impression, interview_data, t) ==
    [i \in DOMAIN sessions |->
        CompletedRow(sessions[i], technical_score, behavioral_score,
                     overall_impression, interview_data, t)]

complete_interview_session(sessions, interview_id, technical_score, behavioral_score, overall_impression, interview_data, t) ==
    [i \in DOMAIN sessions |->
        IF i = interview_id
        THEN CompletedRow(sessions[i], technical_score, behavioral_score,
                          overall_impression, interview_data, t)
        ELSE sessions[i]]

(* cursor.rowcount > 0 of the UPDATE in complete_interview_session *)
complete_interview_session_result(sessions, interview_id) ==
    interview_id \in DOMAIN sessions

ArchiveMatchesAnyStatus(row, cutoff) == row.start_time < cutoff

(* WHERE start_time < ? AND status != 'archived' *)
ArchiveMatches(row, cutoff) ==
    row.start_time < cutoff /\ row.status # "archived"

cleanup_old_interviews_delete(sessions, days_old, t) ==
    [i \in {j \in DOMAIN sessions : ~ArchiveMatches(sessions[j], t - days_old)} |->
        sessions[i]]

cleanup_old_interviews(sessions, days_old, t) ==
    [i \in DOMAIN sessions |->
        IF ArchiveMatches(sessions[i], t - days_old)
        THEN [sessions[i] EXCEPT !.status = "archived"]
        ELSE sessions[i]]

cleanup_old_interviews_result(sessions, days_old, t) ==
    Cardinality({i \in DOMAIN sessions : ArchiveMatches(sessions[i], t - days_old)})

(* json.dumps of the three logs in complete_interview *)
JsonDumps(data) ==
    [questions_asked |-> data.questions_asked,
     responses |-> data.responses,
     notes |-> data.notes]

(* The last call: the operation, the conversation it was invoked on, its
   argument (quality_score, overall_impression or days_old) and whether the
   store raised during it *)
Call(name, a, arg, fail) == [name |-> name, agent |-> a, arg |-> arg, fail |-> fail]

(* an exception of the store (sqlite3.Error) propagating out of the tool *)
Raised == "raised sqlite3.Error"

CompleteMessage == "Interview completed and data saved. Thank you for your time!"

----------------------------------------------------------------------------
Init ==
    /\ agent = [a \in Agents |-> InterviewData]
    /\ interview_sessions = <<>>
    /\ recordings = <<>>
    /\ transcripts = <<>>
    /\ issued = {}
    /\ now = 0
    /\ calls = 0
    /\ op = Call("init", 0, 0, FALSE)
    /\ ret = ""

----------------------------------------------------------------------------
(* InterviewAgent: one action per function tool *)

(* an operation is invoked (a = 0: not on a conversation); a run makes at
   most MaxCalls calls *)
Invoke(name, a, arg, fail) ==
    /\ calls < MaxCalls
    /\ calls' = calls + 1
    /\ op' = Call(name, a, arg, fail)

record_candidate_info(a, name, position, fail) ==
    \E interview_id \in Ids :
        LET raised == InsertRaises(interview_sessions, interview_id, fail)
        IN /\ Invoke("record_candidate_info", a, 0, raised)
           /\ IF raised
              THEN /\ agent' = [agent EXCEPT ![a].candidate_name = name,
                                             ![a].position = Lower(position)]
                   /\ ret' = Raised
                   /\ UNCHANGED interview_sessions
              ELSE /\ interview_sessions' =
                          create_interview_session(interview_sessions, interview_id,
                                                   name, position, now)
                   /\ agent' = [agent EXCEPT ![a].candidate_name = name,
                                             ![a].position = Lower(position),
                                             ![a].interview_id = interview_id]
                   /\ ret' = "Thank you! I've recorded your name and position."
           /\ UNCHANGED <<issued, now, recordings, transcripts>>

record_question_untagged(a, question) ==
    /\ Len(agent[a].questions_asked) < MaxQuestions
    /\ Invoke("record_question", a, 0, FALSE)
    /\ agent' = [agent EXCEPT
           ![a].questions_asked =
               Append(@, [question |-> question, phase |-> INTRODUCTION]),
           ![a].question_count = @ + 1]
    /\ ret' = "Question recorded."
    /\ UNCHANGED <<interview_sessions, issued, now, recordings, transcripts>>

record_question(a, question) ==
    /\ Len(agent[a].questions_asked) < MaxQuestions
    /\ Invoke("record_question", a, 0, FALSE)
    /\ agent' = [agent EXCEPT
           ![a].questions_asked =
               Append(@, [question |-> question,
                          phase |-> agent[a].current_phase]),
           ![a].question_count = @ + 1]
    /\ ret' = "Question recorded."
    /\ UNCHANGED <<interview_sessions, issued, now, recordings, transcripts>>

ScoresAfterOneTotal(data, quality_score) ==
    IF data.current_phase \in {TECHNICAL, BEHAVIORAL}
    THEN <<data.technical_score + quality_score, data.behavioral_score>>
    ELSE <<data.technical_score, data.behavioral_score>>

ScoresAfterElse(data, quality_score) ==
    IF data.current_phase = TECHNICAL
    THEN <<data.technical_score + quality_score, data.behavioral_score>>
    ELSE <<data.technical_score, data.behavioral_score + quality_score>>

(* the score update of record_response: <<technical_score, behavioral_score>> *)
ScoresAfter(data, quality_score) ==
    IF data.current_phase = TECHNICAL
    THEN <<data.technical_score + quality_score, data.behavioral_score>>
    ELSE IF data.current_phase = BEHAVIORAL
    THEN <<data.technical_score, data.behavioral_score + quality_score>>
    ELSE <<data.technical_score, data.behavioral_score>>

record_response_prepends(a, response, quality_score) ==
    /\ Len(agent[a].responses) < MaxResponses
    /\ Invoke("record_response", a, quality_score, FALSE)
    /\ agent' = [agent EXCEPT
           ![a].responses =
               <<[response |-> response,
                  quality_score |-> quality_score,
                  phase |-> agent[a].current_phase]>> \o @,
           ![a].technical_score = ScoresAfter(agent[a], quality_score)[1],
           ![a].behavioral_score = ScoresAfter(agent[a], quality_score)[2]]
    /\ ret' = "Response recorded and scored."
    /\ UNCHANGED <<interview_sessions, issued, now, recordings, transcripts>>

record_response(a, response, quality_score) ==
    /\ Len(agent[a].responses) < MaxResponses
    /\ Invoke("record_response", a, quality_score, FALSE)
    /\ agent' = [agent EXCEPT
           ![a].responses =
               Append(@, [response |-> response,
                          quality_score |-> quality_score,
                          phase |-> agent[a].current_phase]),
           ![a].technical_score = ScoresAfter(agent[a], quality_score)[1],
           ![a].behavioral_score = ScoresAfter(agent[a], quality_score)[2]]
    /\ ret' = "Response recorded and scored."
    /\ UNCHANGED <<interview_sessions, issued, now, recordings, transcripts>>

add_interviewer_note(a, note) ==
    /\ Len(agent[a].notes) < MaxNotes
    /\ Invoke("add_interviewer_note", a, 0, FALSE)
    /\ agent' = [agent EXCEPT
           ![a].notes = Append(@, [note |-> note,
                                   phase |-> agent[a].current_phase])]
    /\ ret' = "Note added."
    /\ UNCHANGED <<interview_sessions, issued, now, recordings, transcripts>>

NextPhaseWraps(current_phase) ==
    InterviewPhase[(PhaseIndex(current_phase) % Len(InterviewPhase)) + 1]

NextPhaseSkips(current_phase) ==
    CASE current_phase = INTRODUCTION -> TECHNICAL
      [] current_phase = TECHNICAL -> CLOSING
      [] current_phase = BEHAVIORAL -> CLOSING
      [] current_phase = CLOSING -> COMPLETED
      [] OTHER -> current_phase

(* the if/elif chain of advance_interview_phase: the phase it assigns *)
NextPhase(current_phase) ==
    CASE current_phase = INTRODUCTION -> TECHNICAL
      [] current_phase = TECHNICAL -> BEHAVIORAL
      [] current_phase = BEHAVIORAL -> CLOSING
      [] current_phase = CLOSING -> COMPLETED
      [] OTHER -> current_phase

AdvanceMessageNoSignal(current_phase) ==
    CASE current_phase = INTRODUCTION -> "Moving to technical questions phase."
      [] current_phase = TECHNICAL -> "Moving to behavioral questions phase."
      [] current_phase = BEHAVIORAL -> "Moving to closing phase."
      [] OTHER -> "Interview completed."

AdvanceMessage(current_phase) ==
    CASE current_phase = INTRODUCTION -> "Moving to technical questions phase."
      [] current_phase = TECHNICAL -> "Moving to behavioral questions phase."
      [] current_phase = BEHAVIORAL -> "Moving to closing phase."
      [] current_phase = CLOSING -> "Interview completed."
      [] OTHER -> "Interview already completed."

QuestionCountNeverReset(current_phase, question_count) == question_count

QuestionCountAlwaysReset(current_phase, question_count) == 0

(* the question_count advance_interview_phase leaves: reset in the first two
   branches only *)
QuestionCountAfterAdvance(current_phase, question_count) ==
    IF current_phase \in {INTRODUCTION, TECHNICAL} THEN 0 ELSE question_count

advance_interview_phase_persisting(a) ==
    /\ Invoke("advance_interview_phase", a, 0, FALSE)
    /\ agent' = [agent EXCEPT
           ![a].current_phase = NextPhase(@),
           ![a].question_count =
               QuestionCountAfterAdvance(agent[a].current_phase, @)]
    /\ ret' = AdvanceMessage(agent[a].current_phase)
    /\ interview_sessions' =
           complete_interview_session(
               interview_sessions, agent[a].interview_id,
               agent[a].technical_score, agent[a].behavioral_score,
               "", JsonDumps(agent[a]), now)
    /\ UNCHANGED <<issued, now, recordings, transcripts>>

advance_interview_phase(a) ==
    /\ Invoke("advance_interview_phase", a, 0, FALSE)
    /\ agent' = [agent EXCEPT
           ![a].current_phase = NextPhase(@),
           ![a].question_count =
               QuestionCountAfterAdvance(agent[a].current_phase, @)]
    /\ ret' = AdvanceMessage(agent[a].current_phase)
    /\ UNCHANGED <<interview_sessions, issued, now, recordings, transcripts>>

get_interview_status(a) ==
    /\ Invoke("get_interview_status", a, 0, FALSE)
    /\ ret' = [candidate_name |-> agent[a].candidate_name,
               position |-> agent[a].position,
               current_phase |-> agent[a].current_phase,
               duration_minutes |-> now - agent[a].start_time,
               questions_asked |-> Len(agent[a].questions_asked),
               questions_in_current_phase |-> agent[a].question_count]
    /\ UNCHANGED <<agent, interview_sessions, issued, now, recordings, transcripts>>

CompleteResultSwallowed(raised) == CompleteMessage

(* what complete_interview hands to its caller: it has no try/except, so an
   exception of the store call propagates *)
CompleteResult(raised) == IF raised THEN Raised ELSE CompleteMessage

(* the phase complete_interview assigns *)
CompletePhase(current_phase) == COMPLETED

complete_interview(a, overall_impression, fail) ==
    /\ Invoke("complete_interview", a, overall_impression, fail)
    /\ agent' = [agent EXCEPT
           ![a].overall_impression = overall_impression,
           ![a].current_phase = CompletePhase(@)]
    /\ IF agent[a].interview_id # NoId
       THEN IF fail
            THEN /\ ret' = CompleteResult(fail)
                 /\ UNCHANGED interview_sessions
            ELSE /\ interview_sessions' =
                        complete_interview_session(
                            interview_sessions, agent[a].interview_id,
                            agent[a].technical_score, agent[a].behavioral_score,
                            overall_impression, JsonDumps(agent[a]), now)
                 /\ ret' = CompleteResult(fail)
       ELSE /\ fail = FALSE
            /\ ret' = CompleteMessage
            /\ UNCHANGED interview_sessions
    /\ UNCHANGED <<issued, now, recordings, transcripts>>

should_advance_phase_strict(a) ==
    /\ agent[a].question_count > agent[a].max_questions_per_phase
    /\ agent[a].current_phase # COMPLETED

should_advance_phase(a) ==
    /\ agent[a].question_count >= agent[a].max_questions_per_phase
    /\ agent[a].current_phase # COMPLETED

----------------------------------------------------------------------------
(* The retention sweep and the passage of time *)

CleanupOld(days_old) ==
    /\ Invoke("cleanup_old_interviews", 0, days_old, FALSE)
    /\ interview_sessions' =
           cleanup_old_interviews(interview_sessions, days_old, now)
    /\ ret' = cleanup_old_interviews_result(interview_sessions, days_old, now)
    /\ UNCHANGED <<agent, issued, now, recordings, transcripts>>

Tick ==
    /\ now < MaxTime
    /\ now' = now + 1
    /\ Invoke("tick", 0, 0, FALSE)
    /\ ret' = ""
    /\ UNCHANGED <<agent, interview_sessions, issued, recordings, transcripts>>

----------------------------------------------------------------------------
(* server.py: POST /interview/token.  The row is inserted before the token is
   signed; without LiveKit credentials (configured = FALSE) the endpoint
   answers 500 and the row stays.  `issued` holds the interview ids the
   endpoint has returned to clients. *)

HttpError == "HTTP 500"

TokenResponse(interview_id) == [interview_id |-> interview_id]

generate_interview_token(name, position, fail, configured) ==
    \E interview_id \in Ids :
        LET raised == InsertRaises(interview_sessions, interview_id, fail)
        IN /\ Invoke("generate_interview_token", 0, 0, raised)
           /\ IF raised
              THEN /\ ret' = HttpError
                   /\ UNCHANGED <<interview_sessions, issued>>
              ELSE /\ interview_sessions' =
                          create_interview_session(interview_sessions, interview_id,
                                                   name, position, now)
                   /\ IF configured
                      THEN /\ ret' = TokenResponse(interview_id)
                           /\ issued' = issued \cup {interview_id}
                      ELSE /\ ret' = HttpError
                           /\ UNCHANGED issued
           /\ UNCHANGED <<agent, now, recordings, transcripts>>

----------------------------------------------------------------------------
(* DatabaseDriver: its methods called directly *)

CompleteArgs(interview_id, technical_score, behavioral_score, overall_impression, interview_data) ==
    [interview_id |-> interview_id,
     technical_score |-> technical_score,
     behavioral_score |-> behavioral_score,
     overall_impression |-> overall_impression,
     interview_data |-> interview_data]

CreateSession(name, position, fail) ==
    \E interview_id \in Ids :
        LET raised == InsertRaises(interview_sessions, interview_id, fail)
        IN /\ Invoke("create_interview_session", 0, 0, raised)
           /\ IF raised
              THEN /\ ret' = Raised
                   /\ UNCHANGED interview_sessions
              ELSE /\ interview_sessions' =
                          create_interview_session(interview_sessions, interview_id,
                                                   name, position, now)
                   /\ ret' = interview_id
           /\ UNCHANGED <<agent, issued, now, recordings, transcripts>>

CompleteSession(interview_id, technical_score, behavioral_score, overall_impression, interview_data, fail) ==
    /\ Invoke("complete_interview_session", 0,
              CompleteArgs(interview_id, technical_score, behavioral_score,
                           overall_impression, interview_data), fail)
    /\ IF fail
       THEN /\ ret' = Raised
            /\ UNCHANGED interview_sessions
       ELSE /\ interview_sessions' =
                   complete_interview_session(
                       interview_sessions, interview_id, technical_score,
                       behavioral_score, overall_impression, interview_data, now)
            /\ ret' = complete_interview_session_result(interview_sessions, interview_id)
    /\ UNCHANGED <<agent, issued, now, recordings, transcripts>>

----------------------------------------------------------------------------
(* DatabaseDriver: reading a session back *)

(* SELECT * FROM interview_sessions: the columns of a row in table order *)
SessionColumns(sessions, interview_id) ==
    <<interview_id,
      sessions[interview_id].candidate_name,
      sessions[interview_id].position,
      sessions[interview_id].start_time,
      sessions[interview_id].end_time,
      sessions[interview_id].technical_score,
      sessions[interview_id].behavioral_score,
      sessions[interview_id].overall_impression,
      sessions[interview_id].interview_data,
      sessions[interview_id].status,
      sessions[interview_id].recording_id,
      sessions[interview_id].recording_url,
      sessions[interview_id].transcript_url,
      sessions[interview_id].recording_status>>

(* row[k] of Python: indices start at 0 *)
Col(row, k) == row[k + 1]

(* `v or ""` on a TEXT column *)
OrEmpty(v) == IF v = Null THEN "" ELSE v

InterviewSessionShifted(row) ==
    [interview_id |-> Col(row, 0),
     candidate_name |-> Col(row, 1),
     position |-> Col(row, 2),
     start_time |-> Col(row, 3),
     end_time |-> Col(row, 4),
     technical_score |-> Col(row, 6),
     behavioral_score |-> Col(row, 5),
     overall_impression |-> OrEmpty(Col(row, 7)),
     interview_data |-> OrEmpty(Col(row, 8)),
     status |-> Col(row, 9),
     recording_id |-> Col(row, 10),
     recording_url |-> Col(row, 11),
     transcript_url |-> Col(row, 12),
     recording_status |-> Col(row, 13)]

(* the InterviewSession that get_interview_session builds from a row *)
InterviewSession(row) ==
    [interview_id |-> Col(row, 0),
     candidate_name |-> Col(row, 1),
     position |-> Col(row, 2),
     start_time |-> Col(row, 3),
     end_time |-> Col(row, 4),
     technical_score |-> Col(row, 5),
     behavioral_score |-> Col(row, 6),
     overall_impression |-> OrEmpty(Col(row, 7)),
     interview_data |-> OrEmpty(Col(row, 8)),
     status |-> Col(row, 9),
     recording_id |-> Col(row, 10),
     recording_url |-> Col(row, 11),
     transcript_url |-> Col(row, 12),
     recording_status |-> Col(row, 13)]

(* None when no row has the id *)
get_interview_session(sessions, interview_id) ==
    IF interview_id \notin DOMAIN sessions
    THEN Null
    ELSE InterviewSession(SessionColumns(sessions, interview_id))

GetSession(interview_id, fail) ==
    /\ Invoke("get_interview_session", 0, interview_id, fail)
    /\ ret' = IF fail
              THEN Raised
              ELSE get_interview_session(interview_sessions, interview_id)
    /\ UNCHANGED <<agent, interview_sessions, issued, now, recordings, transcripts>>

----------------------------------------------------------------------------
(* DatabaseDriver: the recordings and transcripts tables *)

NewRecordingRow(interview_id, egress_id, room_name, t) ==
    [interview_id |-> interview_id,
     egress_id |-> egress_id,
     room_name |-> room_name,
     status |-> "recording",
     start_time |-> t,
     end_time |-> NullTime,
     file_size |-> NullInt,
     duration_seconds |-> NullInt,
     s3_url |-> Null,
     updated_at |-> t]

(* INSERT INTO recordings.  The table declares FOREIGN KEY (interview_id),
   but no connection issues PRAGMA foreign_keys = ON, so sqlite does not
   enforce it: the row is inserted whatever the interview_id *)
InsertRecording(recs, recording_id, interview_id, egress_id, room_name, t) ==
    [r \in DOMAIN recs \cup {recording_id} |->
        IF r = recording_id
        THEN NewRecordingRow(interview_id, egress_id, room_name, t)
        ELSE recs[r]]

(* UPDATE interview_sessions SET recording_id = ?, recording_status =
   'recording' WHERE interview_id = ?   (recording_url is not in the SET) *)
PointSessionAtRecording(sessions, recording_id, interview_id) ==
    [i \in DOMAIN sessions |->
        IF i = interview_id
        THEN [sessions[i] EXCEPT !.recording_id = recording_id,
                                 !.recording_status = "recording"]
        ELSE sessions[i]]

create_recording_entry(interview_id, egress_id, room_name, fail) ==
    \E recording_id \in RecordingIds :
        LET raised == InsertRaises(recordings, recording_id, fail)
        IN /\ Invoke("create_recording_entry", 0, interview_id, raised)
           /\ IF raised
              THEN /\ ret' = Raised
                   /\ UNCHANGED <<recordings, interview_sessions>>
              ELSE /\ recordings' = InsertRecording(recordings, recording_id,
                                                    interview_id, egress_id,
                                                    room_name, now)
                   /\ interview_sessions' =
                          PointSessionAtRecording(interview_sessions,
                                                  recording_id, interview_id)
                   /\ ret' = recording_id
           /\ UNCHANGED <<agent, issued, now, transcripts>>

(* the SET clause of UPDATE recordings in update_recording_status *)
UpdatedRecording(row, status, s3_url, file_size, duration_seconds, t) ==
    [row EXCEPT !.status = status,
                !.end_time = IF status = "completed" THEN t ELSE NullTime,
                !.s3_url = s3_url,
                !.file_size = file_size,
                !.duration_seconds = duration_seconds,
                !.updated_at = t]

UpdateRecordings(recs, recording_id, status, s3_url, file_size, duration_seconds, t) ==
    [r \in DOMAIN recs |->
        IF r = recording_id
        THEN UpdatedRecording(recs[r], status, s3_url, file_size,
                              duration_seconds, t)
        ELSE recs[r]]

(* UPDATE interview_sessions SET recording_status = ?, recording_url = ?
   WHERE recording_id = ? *)
UpdateSessionRecording(sessions, recording_id, status, s3_url) ==
    [i \in DOMAIN sessions |->
        IF sessions[i].recording_id = recording_id
        THEN [sessions[i] EXCEPT !.recording_status = status,
                                 !.recording_url = s3_url]
        ELSE sessions[i]]

(* cursor.rowcount > 0 after the second statement, the UPDATE of
   interview_sessions *)
update_recording_status_result(sessions, recording_id) ==
    \E i \in DOMAIN sessions : sessions[i].recording_id = recording_id

UpdateArgs(recording_id, status, s3_url, file_size, duration_seconds) ==
    [recording_id |-> recording_id,
     status |-> status,
     s3_url |-> s3_url,
     file_size |-> file_size,
     duration_seconds |-> duration_seconds]

update_recording_status(recording_id, status, s3_url, file_size, duration_seconds, fail) ==
    /\ Invoke("update_recording_status", 0,
              UpdateArgs(recording_id, status, s3_url, file_size,
                         duration_seconds), fail)
    /\ IF fail
       THEN /\ ret' = Raised
            /\ UNCHANGED <<recordings, interview_sessions>>
       ELSE /\ recordings' = UpdateRecordings(recordings, recording_id, status,
                                              s3_url, file_size,
                                              duration_seconds, now)
            /\ interview_sessions' =
                   UpdateSessionRecording(interview_sessions, recording_id,
                                          status, s3_url)
            /\ ret' = update_recording_status_result(interview_sessions,
                                                     recording_id)
    /\ UNCHANGED <<agent, issued, now, transcripts>>

NewTranscriptRow(interview_id, s3_url, word_count, character_count, confidence_score, t) ==
    [interview_id |-> interview_id,
     s3_url |-> s3_url,
     word_count |-> word_count,
     character_count |-> character_count,
     confidence_score |-> confidence_score,
     processing_status |-> "completed",
     created_at |-> t,
     updated_at |-> t]

(* INSERT INTO transcripts: the FOREIGN KEY is not enforced either *)
InsertTranscript(trs, transcript_id, interview_id, s3_url, t) ==
    [x \in DOMAIN trs \cup {transcript_id} |->
        IF x = transcript_id
        THEN NewTranscriptRow(interview_id, s3_url, 0, 0, 0, t)
        ELSE trs[x]]

(* UPDATE interview_sessions SET transcript_url = ? WHERE interview_id = ? *)
SetTranscriptUrl(sessions, interview_id, s3_url) ==
    [i \in DOMAIN sessions |->
        IF i = interview_id
        THEN [sessions[i] EXCEPT !.transcript_url = s3_url]
        ELSE sessions[i]]

create_transcript_entry(interview_id, s3_url, fail) ==
    \E transcript_id \in TranscriptIds :
        LET raised == InsertRaises(transcripts, transcript_id, fail)
        IN /\ Invoke("create_transcript_entry", 0, interview_id, raised)
           /\ IF raised
              THEN /\ ret' = Raised
                   /\ UNCHANGED <<transcripts, interview_sessions>>
              ELSE /\ transcripts' = InsertTranscript(transcripts, transcript_id,
                                                      interview_id, s3_url, now)
                   /\ interview_sessions' =
                          SetTranscriptUrl(interview_sessions, interview_id,
                                           s3_url)
                   /\ ret' = transcript_id
           /\ UNCHANGED <<agent, issued, now, recordings>>

----------------------------------------------------------------------------
(* DatabaseDriver.get_interview_analytics *)

(* sum(f[x] for x in S) *)
RECURSIVE Sum(_, _)
Sum(f, S) ==
    IF S = {}
    THEN 0
    ELSE LET x == CHOOSE y \in S : TRUE
         IN f[x] + Sum(f, S \ {x})

(* round(num / den, 2), in hundredths.  Python rounds the float to the
   nearest hundredth; num / den is never half-way between two hundredths
   for the denominators of the model (den < 8, or den = 2^20 with num a
   multiple of 2^19) *)
Round2(num, den) == (200 * num + den) \div (2 * den)

(* `if position:` -- None and "" add no filter *)
Truthy(position) == position # Null /\ position # ""

CompletedInterviewsAnyStatus(sessions, position) ==
    {i \in DOMAIN sessions : Truthy(position) => sessions[i].position = position}

(* SELECT * FROM interview_sessions WHERE status = 'completed'
   [AND position = ?] *)
CompletedInterviews(sessions, position) ==
    {i \in DOMAIN sessions :
        /\ sessions[i].status = "completed"
        /\ Truthy(position) => sessions[i].position = position}

(* `r_row[1] or 0`, then `... if file_size else 0` *)
FileSizeOrZero(file_size) == IF file_size = NullInt THEN 0 ELSE file_size

BytesPerMb == 1024 * 1024

(* the loop over SELECT status, file_size FROM recordings: file_size is
   added for every row, whatever its status *)
RecordingStats(recs) ==
    [total_recordings |-> Cardinality(DOMAIN recs),
     completed_recordings |->
         Cardinality({r \in DOMAIN recs : recs[r].status = "completed"}),
     failed_recordings |->
         Cardinality({r \in DOMAIN recs : recs[r].status = "failed"}),
     total_storage_mb |->
         Round2(Sum([r \in DOMAIN recs |-> FileSizeOrZero(recs[r].file_size)],
                    DOMAIN recs),
                BytesPerMb)]

(* the report over no completed interview *)
EmptyReport ==
    [total_interviews |-> 0,
     average_technical_score |-> 0,
     average_behavioral_score |-> 0,
     position_breakdown |-> [pos \in {} |-> 0],
     recording_stats |-> [total_recordings |-> 0,
                          completed_recordings |-> 0,
                          failed_recordings |-> 0,
                          total_storage_mb |-> 0]]

PositionBreakdown(sessions, completed_interviews) ==
    [pos \in {sessions[i].position : i \in completed_interviews} |->
        LET of_pos == {i \in completed_interviews : sessions[i].position = pos}
        IN [count |-> Cardinality(of_pos),
            avg_technical |->
                Round2(Sum([i \in of_pos |-> sessions[i].technical_score], of_pos),
                       Cardinality(of_pos)),
            avg_behavioral |->
                Round2(Sum([i \in of_pos |-> sessions[i].behavioral_score], of_pos),
                       Cardinality(of_pos))]]

(* the report; averages and megabytes are in hundredths *)
ReportOver(sessions, recs, completed_interviews) ==
    IF completed_interviews = {}
    THEN EmptyReport
    ELSE [total_interviews |-> Cardinality(completed_interviews),
          average_technical_score |->
              Round2(Sum([i \in completed_interviews |-> sessions[i].technical_score],
                         completed_interviews),
                     Cardinality(completed_interviews)),
          average_behavioral_score |->
              Round2(Sum([i \in completed_interviews |-> sessions[i].behavioral_score],
                         completed_interviews),
                     Cardinality(completed_interviews)),
          position_breakdown |-> PositionBreakdown(sessions, completed_interviews),
          recording_stats |-> RecordingStats(recs)]

get_interview_analytics(sessions, recs, position) ==
    ReportOver(sessions, recs, CompletedInterviews(sessions, position))

GetAnalytics(position, fail) ==
    /\ Invoke("get_interview_analytics", 0, position, fail)
    /\ ret' = IF fail
              THEN Raised
              ELSE get_interview_analytics(interview_sessions, recordings, position)
    /\ UNCHANGED <<agent, interview_sessions, issued, now, recordings, transcripts>>

----------------------------------------------------------------------------
(* server.py: DELETE /interview/{interview_id}.  The endpoint looks the
   session up, answers 404 when it is absent, deletes the S3 objects of the
   interview and answers "marked for deletion"; it issues no statement on the
   store. *)

NotFound == "HTTP 404"

DeleteResponse(interview) ==
    [message |-> "marked for deletion",
     interview_id |-> interview.interview_id,
     candidate_name |-> interview.candidate_name]

delete_interview(interview_id, fail) ==
    /\ Invoke("delete_interview", 0, interview_id, fail)
    /\ ret' = IF fail
              THEN HttpError
              ELSE IF interview_id \notin DOMAIN interview_sessions
              THEN NotFound
              ELSE DeleteResponse(get_interview_session(interview_sessions,
                                                        interview_id))
    /\ UNCHANGED <<agent, interview_sessions, issued, now, recordings, transcripts>>

----------------------------------------------------------------------------
Next ==
    \/ \E a \in Drivers, n \in Names, p \in Positions, f \in BOOLEAN :
           record_candidate_info(a, n, p, f)
    \/ \E a \in Drivers, q \in QuestionTexts : record_question(a, q)
    \/ \E a \in Drivers, r \in ResponseTexts, s \in Scores : record_response(a, r, s)
    \/ \E a \in Drivers, n \in NoteTexts : add_interviewer_note(a, n)
    \/ \E a \in Drivers : advance_interview_phase(a)
    \/ \E a \in Drivers : get_interview_status(a)
    \/ \E a \in Drivers, i \in Impressions, f \in BOOLEAN : complete_interview(a, i, f)
    \/ \E d \in DaysOld : CleanupOld(d)
    \/ Tick

Spec == Init /\ [][Next]_vars

(* the conversation together with the token endpoint *)
NextApi ==
    \/ Next
    \/ \E n \in Names, p \in Positions, f \in BOOLEAN, c \in Configured :
           generate_interview_token(n, p, f, c)

SpecApi == Init /\ [][NextApi]_vars

(* the store on its own *)
NextStore ==
    \/ \E n \in Names, p \in Positions, f \in BOOLEAN : CreateSession(n, p, f)
    \/ \E i \in Ids, ts \in StoreScores, bs \in StoreScores, f \in BOOLEAN :
           CompleteSession(i, ts, bs, "Strong hire", StoreData, f)
    \/ \E d \in DaysOld : CleanupOld(d)
    \/ Tick

SpecStore == Init /\ [][NextStore]_vars

(* a session completed and read back *)
NextRead ==
    \/ \E n \in Names, p \in Positions, f \in BOOLEAN : CreateSession(n, p, f)
    \/ \E i \in Ids, ts \in StoreScores, bs \in StoreScores,
          imp \in Impressions, f \in BOOLEAN :
           CompleteSession(i, ts, bs, imp, StoreData, f)
    \/ \E i \in Ids, f \in BOOLEAN : GetSession(i, f)

SpecRead == Init /\ [][NextRead]_vars

(* the store with its recordings and transcripts tables *)
NextRecording ==
    \/ \E n \in Names, p \in Positions : CreateSession(n, p, FALSE)
    \/ \E i \in Ids, e \in EgressIds, room \in RoomNames, f \in BOOLEAN :
           create_recording_entry(i, e, room, f)
    \/ \E r \in RecordingIds, s \in RecordingStatuses, u \in Urls,
          z \in FileSizes, d \in Durations, f \in BOOLEAN :
           update_recording_status(r, s, u, z, d, f)
    \/ \E i \in Ids, u \in TranscriptUrls, f \in BOOLEAN :
           create_transcript_entry(i, u, f)

SpecRecording == Init /\ [][NextRecording]_vars

(* the sessions table under the analytics report *)
NextAnalytics ==
    \/ \E n \in Names, p \in StorePositions : CreateSession(n, p, FALSE)
    \/ \E i \in Ids, ts \in StoreScores, bs \in StoreScores :
           CompleteSession(i, ts, bs, "Strong hire", StoreData, FALSE)
    \/ CleanupOld(0)
    \/ Tick
    \/ \E p \in PositionFilters, f \in BOOLEAN : GetAnalytics(p, f)

SpecAnalytics == Init /\ [][NextAnalytics]_vars

(* the recordings table under the analytics report *)
NextStorage ==
    \/ \E n \in Names, p \in Positions : CreateSession(n, p, FALSE)
    \/ \E i \in Ids : CompleteSession(i, 12, 9, "Strong hire", StoreData, FALSE)
    \/ \E i \in Ids : create_recording_entry(i, "EG_1", "interview-room", FALSE)
    \/ \E r \in RecordingIds, s \in RecordingStatuses, z \in FileSizes :
           update_recording_status(r, s, Null, z, NullInt, FALSE)
    \/ GetAnalytics(Null, FALSE)

SpecStorage == Init /\ [][NextStorage]_vars

(* the store operations together with the HTTP endpoints, in runs of at most
   MaxServerCalls calls *)
ServerCall == calls < MaxServerCalls

NextServer ==
    \/ \E n \in Names, p \in Positions : ServerCall /\ CreateSession(n, p, FALSE)
    \/ \E i \in Ids :
           ServerCall /\ CompleteSession(i, 12, 9, "Strong hire", StoreData, FALSE)
    \/ \E d \in DaysOld : ServerCall /\ CleanupOld(d)
    \/ ServerCall /\ Tick
    \/ \E i \in Ids :
           ServerCall /\ create_recording_entry(i, "EG_1", "interview-room", FALSE)
    \/ \E r \in RecordingIds :
           ServerCall /\ update_recording_status(r, "completed",
                                                 "s3://bucket/recording.mp4",
                                                 NullInt, NullInt, FALSE)
    \/ \E i \in Ids, u \in TranscriptUrls :
           ServerCall /\ create_transcript_entry(i, u, FALSE)
    \/ \E n \in Names, p \in Positions, c \in Configured :
           ServerCall /\ generate_interview_token(n, p, FALSE, c)
    \/ \E i \in Ids, f \in BOOLEAN : ServerCall /\ delete_interview(i, f)

SpecServer == Init /\ [][NextServer]_vars

(* one conversation and its function tools, at one instant *)
NextConversation ==
    \/ \E a \in Drivers, n \in Names, p \in Positions, f \in BOOLEAN :
           record_candidate_info(a, n, p, f)
    \/ \E a \in Drivers, q \in QuestionTexts : record_question(a, q)
    \/ \E a \in Drivers, r \in ResponseTexts, s \in ScoresInRange : record_response(a, r, s)
    \/ \E a \in Drivers, n \in NoteTexts : add_interviewer_note(a, n)
    \/ \E a \in Drivers : advance_interview_phase(a)
    \/ \E a \in Drivers : get_interview_status(a)
    \/ \E a \in Drivers, i \in Impressions, f \in BOOLEAN : complete_interview(a, i, f)

SpecConversation == Init /\ [][NextConversation]_vars

(* the rows of the SELECT of get_recent_interviews, each named by the id of
   its session and by the id of the transcript row the LEFT JOIN of
   transcripts paired it with (NoId: no transcript, or no join).  The LEFT
   JOIN of recordings is on the primary key of recordings and pairs a
   session with at most one row *)
JoinedRows(sessions, trs, include_recordings) ==
    IF include_recordings
    THEN {<<i, x>> \in (DOMAIN sessions) \X (DOMAIN trs) : trs[x].interview_id = i}
         \cup {<<i, NoId>> : i \in {j \in DOMAIN sessions :
                                       \A x \in DOMAIN trs : trs[x].interview_id # j}}
    ELSE {<<i, NoId>> : i \in DOMAIN sessions}

(* ORDER BY start_time DESC: every arrangement of the rows in which
   start_time never increases; the order of rows of equal start_time is left
   to the database *)
OrderedByStartTimeDesc(sessions, rows) ==
    {f \in [1 .. Cardinality(rows) -> rows] :
        /\ \A k, l \in 1 .. Cardinality(rows) : k # l => f[k] # f[l]
        /\ \A k \in 1 .. Cardinality(rows) - 1 :
              sessions[f[k][1]].start_time >= sessions[f[k + 1][1]].start_time}

(* the InterviewSession built from one row: columns 0..13 as in
   get_interview_session, then recording_url and transcript_url replaced by
   the joined r.s3_url and t.s3_url when these are truthy *)
RecentInterview(sessions, recs, trs, row, include_recordings) ==
    LET interview == InterviewSession(SessionColumns(sessions, row[1]))
        recording_id == sessions[row[1]].recording_id
        recording_s3_url == IF recording_id \in DOMAIN recs
                            THEN recs[recording_id].s3_url
                            ELSE Null
        transcript_s3_url == IF row[2] # NoId THEN trs[row[2]].s3_url ELSE Null
    IN IF include_recordings
       THEN [interview EXCEPT
                !.recording_url = IF Truthy(recording_s3_url)
                                  THEN recording_s3_url ELSE @,
                !.transcript_url = IF Truthy(transcript_s3_url)
                                   THEN transcript_s3_url ELSE @]
       ELSE interview

(* LIMIT ? on the ordered rows *)
LimitRows(n, limit) == IF limit < n THEN limit ELSE n

(* the lists get_recent_interviews can return: one for each order the
   database can deliver the rows in *)
get_recent_interviews(sessions, recs, trs, limit, include_recordings) ==
    LET rows == JoinedRows(sessions, trs, include_recordings)
    IN {[k \in 1 .. LimitRows(Cardinality(rows), limit) |->
            RecentInterview(sessions, recs, trs, f[k], include_recordings)] :
        f \in OrderedByStartTimeDesc(sessions, rows)}

RecentArgs(limit, include_recordings) ==
    [limit |-> limit, include_recordings |-> include_recordings]

GetRecent(limit, include_recordings, fail) ==
    /\ Invoke("get_recent_interviews", 0, RecentArgs(limit, include_recordings), fail)
    /\ ret' \in IF fail
                THEN {Raised}
                ELSE get_recent_interviews(interview_sessions, recordings,
                                           transcripts, limit, include_recordings)
    /\ UNCHANGED <<agent, interview_sessions, issued, now, recordings, transcripts>>

(* sessions, their recordings and transcripts, and the recent-interviews
   listing *)
NextRecent ==
    \/ \E n \in Names, p \in Positions : CreateSession(n, p, FALSE)
    \/ Tick
    \/ \E i \in Ids :
           create_recording_entry(i, "EG_1", "interview-room", FALSE)
    \/ \E r \in RecordingIds :
           update_recording_status(r, "completed", "s3://bucket/recording.mp4",
                                   NullInt, NullInt, FALSE)
    \/ \E i \in Ids, u \in TranscriptUrls : create_transcript_entry(i, u, FALSE)
    \/ \E l \in Limits, inc \in BOOLEAN, f \in BOOLEAN : GetRecent(l, inc, f)
SpecRecent == Init /\ [][NextRecent]_vars

(* several conversations of one worker process interleave their tools over
   the module-level DB *)
TwoCall == calls < MaxTwoCalls
NextTwo ==
    \/ TwoCall /\ \E a \in Agents, n \in Names, p \in Positions, f \in BOOLEAN : record_candidate_info(a, n, p, f)
    \/ TwoCall /\ \E a \in Agents, q \in QuestionTexts : record_question(a, q)
    \/ TwoCall /\ \E a \in Agents, r \in ResponseTexts, s \in Scores : record_response(a, r, s)
    \/ TwoCall /\ \E a \in Agents, n \in NoteTexts : add_interviewer_note(a, n)
    \/ TwoCall /\ \E a \in Agents : advance_interview_phase(a)
    \/ TwoCall /\ \E a \in Agents : get_interview_status(a)
    \/ TwoCall /\ \E a \in Agents, i \in Impressions, f \in BOOLEAN : complete_interview(a, i, f)
SpecTwo == Init /\ [][NextTwo]_vars

(* the conversation driver asks whether the phase should advance *)
ShouldAdvance(a) ==
    /\ Invoke("should_advance_phase", a, 0, FALSE)
    /\ ret' = should_advance_phase(a)
    /\ UNCHANGED <<agent, interview_sessions, issued, now, recordings, transcripts>>

(* count questions recorded in one phase *)
QuestionsIn(phase, count) ==
    [k \in 1 .. count |-> [question |-> CHOOSE q \in QuestionTexts : TRUE, phase |-> phase]]

(* a conversation that has recorded `count` questions since it entered
   `phase` *)
ConversationAt(phase, count) ==
    [InterviewData EXCEPT
        !.current_phase = phase,
        !.questions_asked = QuestionsIn(phase, count),
        !.question_count = count]

InitAdvisory ==
    /\ \E phase \in {InterviewPhase[i] : i \in DOMAIN InterviewPhase}, count \in 0 .. MaxCount :
          agent = [a \in Agents |->
                      IF a \in Drivers
                      THEN ConversationAt(phase, count)
                      ELSE InterviewData]
    /\ interview_sessions = <<>>
    /\ recordings = <<>>
    /\ transcripts = <<>>
    /\ issued = {}
    /\ now = 0
    /\ calls = 0
    /\ op = Call("init", 0, 0, FALSE)
    /\ ret = ""

(* should_advance_phase over every phase and counter value, between the
   tools that change them *)
NextAdvisory ==
    \/ \E a \in Drivers : ShouldAdvance(a)
    \/ \E a \in Drivers, q \in QuestionTexts : record_question(a, q)
    \/ \E a \in Drivers : advance_interview_phase(a)
    \/ \E a \in Drivers : get_interview_status(a)
SpecAdvisory == InitAdvisory /\ [][NextAdvisory]_vars

----------------------------------------------------------------------------
(* Properties *)

Phase(a) == agent[a].current_phase
Bound(a) == agent[a].interview_id # NoId
Row(a) == interview_sessions[agent[a].interview_id]
Frozen(row) ==
    <<row.interview_data, row.technical_score, row.behavioral_score,
      row.overall_impression>>

(* sum(r["quality_score"] for r in responses if r["phase"] == phase) *)
RECURSIVE SumScores(_, _)
SumScores(log, phase) ==
    IF log = <<>>
    THEN 0
    ELSE (IF Head(log).phase = phase THEN Head(log).quality_score ELSE 0)
         + SumScores(Tail(log), phase)

(* C1: under every sequence of tool calls on a conversation, the in-memory
   phase never moves backward in the order INTRODUCTION < TECHNICAL <
   BEHAVIORAL < CLOSING < COMPLETED. *)
C1_PhaseNeverMovesBackward ==
    [][\A a \in Agents :
          PhaseIndex(agent'[a].current_phase) >= PhaseIndex(agent[a].current_phase)]_vars

(* advance was called on a conversation that is already COMPLETED *)
C1_Witness ==
    /\ op.name = "advance_interview_phase"
    /\ ret = "Interview already completed."
    /\ Phase(op.agent) = COMPLETED

(* C2 as stated: whenever an operation changes the phase, the new phase is
   the immediate successor of the old one. *)
C2_NoOperationSkipsAPhase ==
    [][\A a \in Agents :
          agent'[a].current_phase # agent[a].current_phase
          => PhaseIndex(agent'[a].current_phase)
                 = PhaseIndex(agent[a].current_phase) + 1]_vars

(* C2 amended: every phase change is to the immediate successor, except
   that complete_interview moves from any phase directly to COMPLETED. *)
C2_OnlyCompleteSkipsAPhase ==
    [][\A a \in Agents :
          agent'[a].current_phase # agent[a].current_phase
          => \/ PhaseIndex(agent'[a].current_phase)
                    = PhaseIndex(agent[a].current_phase) + 1
             \/ /\ op'.name = "complete_interview"
                /\ op'.agent = a
                /\ agent'[a].current_phase = COMPLETED]_vars

(* advance moved the conversation out of TECHNICAL *)
C2_Witness ==
    /\ op.name = "advance_interview_phase"
    /\ ret = "Moving to behavioral questions phase."
    /\ Phase(op.agent) = BEHAVIORAL

(* C3: in every reachable state the technical total is the sum of the scores
   of the responses tagged TECHNICAL and the behavioral total the sum of those
   tagged BEHAVIORAL; a response recorded in one of the two phases leaves the
   other total unchanged. *)
C3_TotalsAreSumsOfTaggedScores ==
    /\ [](\A a \in Agents :
            /\ agent[a].technical_score = SumScores(agent[a].responses, TECHNICAL)
            /\ agent[a].behavioral_score = SumScores(agent[a].responses, BEHAVIORAL))
    /\ [][\A a \in Agents :
            (op'.name = "record_response" /\ op'.agent = a)
            => /\ (Phase(a) = TECHNICAL
                   => agent'[a].behavioral_score = agent[a].behavioral_score)
               /\ (Phase(a) = BEHAVIORAL
                   => agent'[a].technical_score = agent[a].technical_score)]_vars

(* a BEHAVIORAL response was recorded after a TECHNICAL one *)
C3_Witness ==
    /\ op.name = "record_response"
    /\ Phase(op.agent) = BEHAVIORAL
    /\ agent[op.agent].technical_score # 0
    /\ agent[op.agent].behavioral_score # 0

(* C4: record_response with a quality score outside 1..5 is rejected and
   changes neither total nor the response log. *)
C4_OutOfRangeScoreRejected ==
    [][\A a \in Agents :
          (op'.name = "record_response" /\ op'.agent = a /\ op'.arg \notin 1 .. 5)
          => /\ ret' # "Response recorded and scored."
             /\ agent'[a].technical_score = agent[a].technical_score
             /\ agent'[a].behavioral_score = agent[a].behavioral_score
             /\ agent'[a].responses = agent[a].responses]_vars

(* C5: after complete_interview returns on a conversation whose interview_id
   names an existing row, the phase is COMPLETED and the row has status
   completed, the in-memory totals as scores and the argument as
   overall_impression. *)
C5_CompletePersistsSnapshot ==
    [][\A a \in Agents :
          (/\ op'.name = "complete_interview"
           /\ op'.agent = a
           /\ ~op'.fail
           /\ agent[a].interview_id \in DOMAIN interview_sessions)
          => /\ agent'[a].current_phase = COMPLETED
             /\ LET row == interview_sessions'[agent[a].interview_id]
                IN /\ row.status = "completed"
                   /\ row.technical_score = agent'[a].technical_score
                   /\ row.behavioral_score = agent'[a].behavioral_score
                   /\ row.overall_impression = op'.arg]_vars

(* complete_interview persisted a technical and a behavioral total *)
C5_Witness ==
    /\ op.name = "complete_interview"
    /\ ~op.fail
    /\ Bound(op.agent)
    /\ Row(op.agent).status = "completed"
    /\ Row(op.agent).technical_score > 0
    /\ Row(op.agent).behavioral_score > 0
    /\ Row(op.agent).technical_score # Row(op.agent).behavioral_score

(* C6: whenever complete_interview returns its success acknowledgement, a
   session row with status completed and the in-memory totals exists. *)
C6_AcknowledgedCompleteIsPersisted ==
    (op.name = "complete_interview" /\ ret = CompleteMessage)
    => \E i \in DOMAIN interview_sessions :
          /\ interview_sessions[i].status = "completed"
          /\ interview_sessions[i].technical_score = agent[op.agent].technical_score
          /\ interview_sessions[i].behavioral_score = agent[op.agent].behavioral_score

(* C7: once a row has status completed, its interview_data, scores and
   overall_impression never change. *)
C7_CompletedRowIsFrozen ==
    [][\A i \in DOMAIN interview_sessions :
          interview_sessions[i].status = "completed"
          => Frozen(interview_sessions'[i]) = Frozen(interview_sessions[i])]_vars

(* C8: once a conversation's interview_id is bound, no later operation
   changes it. *)
C8_InterviewIdAssignedOnce ==
    [][\A a \in Agents :
          agent[a].interview_id # NoId
          => agent'[a].interview_id = agent[a].interview_id]_vars

(* C9: once a row has status archived, it stays archived. *)
C9_ArchivedStaysArchived ==
    [][\A i \in DOMAIN interview_sessions :
          interview_sessions[i].status = "archived"
          => interview_sessions'[i].status = "archived"]_vars

(* C10: when advance from CLOSING has moved a conversation with a bound
   interview_id to COMPLETED, the persisted row has status completed. *)
C10_FinalizedClosingIsPersisted ==
    (/\ op.name = "advance_interview_phase"
     /\ ret = "Interview completed."
     /\ Bound(op.agent))
    => Row(op.agent).status = "completed"

(* C11: for an interview provisioned through the token endpoint and then
   conducted by the agent with one record_candidate_info call, exactly one
   session row exists, and the row whose id was returned to the client is the
   one complete_interview marks completed. *)
C11_OneRowPerInterview ==
    \A a \in Agents :
        (/\ op.name = "complete_interview"
         /\ op.agent = a
         /\ ret = CompleteMessage
         /\ Bound(a)
         /\ Cardinality(issued) = 1
         /\ Cardinality(DOMAIN interview_sessions \ issued) <= 1)
        => /\ DOMAIN interview_sessions = issued
           /\ \A i \in issued : interview_sessions[i].status = "completed"

(* C12: advance called while the phase is COMPLETED changes nothing of the
   conversation (phase, counter, totals, logs) nor of the persisted rows and
   returns the already-completed signal. *)
C12_AdvanceAtCompletedIsNoOp ==
    [][\A a \in Agents :
          (/\ op'.name = "advance_interview_phase"
           /\ op'.agent = a
           /\ agent[a].current_phase = COMPLETED)
          => /\ agent'[a] = agent[a]
             /\ interview_sessions' = interview_sessions
             /\ ret' = "Interview already completed."]_vars

(* advance was called on a completed, persisted conversation with a question
   and a response on record *)
C12_Witness ==
    /\ op.name = "advance_interview_phase"
    /\ ret = "Interview already completed."
    /\ agent[op.agent].question_count > 0
    /\ agent[op.agent].responses # <<>>
    /\ Bound(op.agent)
    /\ Row(op.agent).status = "completed"

(* C13: advance moves INTRODUCTION, TECHNICAL, BEHAVIORAL, CLOSING to
   TECHNICAL, BEHAVIORAL, CLOSING, COMPLETED; it resets the per-phase counter
   to 0 when leaving INTRODUCTION or TECHNICAL and leaves it unchanged when
   leaving BEHAVIORAL or CLOSING; it never changes totals or logs. *)
C13_AdvanceFollowsTransitionTable ==
    [][\A a \in Agents :
          (op'.name = "advance_interview_phase" /\ op'.agent = a)
          => /\ (Phase(a) = INTRODUCTION
                 => /\ agent'[a].current_phase = TECHNICAL
                    /\ agent'[a].question_count = 0)
             /\ (Phase(a) = TECHNICAL
                 => /\ agent'[a].current_phase = BEHAVIORAL
                    /\ agent'[a].question_count = 0)
             /\ (Phase(a) = BEHAVIORAL
                 => /\ agent'[a].current_phase = CLOSING
                    /\ agent'[a].question_count = agent[a].question_count)
             /\ (Phase(a) = CLOSING
                 => /\ agent'[a].current_phase = COMPLETED
                    /\ agent'[a].question_count = agent[a].question_count)
             /\ agent'[a].technical_score = agent[a].technical_score
             /\ agent'[a].behavioral_score = agent[a].behavioral_score
             /\ agent'[a].questions_asked = agent[a].questions_asked
             /\ agent'[a].responses = agent[a].responses
             /\ agent'[a].notes = agent[a].notes]_vars

(* advance left BEHAVIORAL with a question counted and a response scored *)
C13_Witness ==
    /\ op.name = "advance_interview_phase"
    /\ ret = "Moving to closing phase."
    /\ Phase(op.agent) = CLOSING
    /\ agent[op.agent].question_count > 0
    /\ agent[op.agent].behavioral_score # 0

(* C14: record_response called while the phase is INTRODUCTION, CLOSING or
   COMPLETED appends one entry to the response log and leaves both totals
   unchanged. *)
C14_UnscoredPhasesLeaveTotals ==
    [][\A a \in Agents :
          (/\ op'.name = "record_response"
           /\ op'.agent = a
           /\ Phase(a) \in {INTRODUCTION, CLOSING, COMPLETED})
          => /\ Len(agent'[a].responses) = Len(agent[a].responses) + 1
             /\ SubSeq(agent'[a].responses, 1, Len(agent[a].responses))
                    = agent[a].responses
             /\ agent'[a].responses[Len(agent'[a].responses)].quality_score = op'.arg
             /\ agent'[a].responses[Len(agent'[a].responses)].phase = Phase(a)
             /\ agent'[a].technical_score = agent[a].technical_score
             /\ agent'[a].behavioral_score = agent[a].behavioral_score]_vars

(* a response was recorded in CLOSING after one scored in TECHNICAL *)
C14_Witness ==
    /\ op.name = "record_response"
    /\ Phase(op.agent) = CLOSING
    /\ Len(agent[op.agent].responses) = 2
    /\ agent[op.agent].technical_score # 0
    /\ agent[op.agent].technical_score = agent[op.agent].responses[1].quality_score

(* C15: technical_score and behavioral_score are never negative, in memory
   and in the persisted rows, whatever integer scores record_response gets. *)
C15_TotalsNonNegative ==
    /\ \A a \in Agents :
          agent[a].technical_score >= 0 /\ agent[a].behavioral_score >= 0
    /\ \A i \in DOMAIN interview_sessions :
          /\ interview_sessions[i].technical_score >= 0
          /\ interview_sessions[i].behavioral_score >= 0

(* C16: a complete_interview call made after an earlier one does not fail and
   changes neither the in-memory overall_impression nor the row's
   overall_impression, end_time, scores or interview_data. *)
C16_SecondCompleteIsNoOp ==
    [][\A a \in Agents :
          (/\ op'.name = "complete_interview"
           /\ op'.agent = a
           /\ ~op'.fail
           /\ agent[a].overall_impression # "")
          => /\ ret' # Raised
             /\ agent'[a].overall_impression = agent[a].overall_impression
             /\ \A i \in DOMAIN interview_sessions :
                   interview_sessions[i].status = "completed"
                   => /\ Frozen(interview_sessions'[i]) = Frozen(interview_sessions[i])
                      /\ interview_sessions'[i].end_time
                             = interview_sessions[i].end_time]_vars

(* C17: a record_candidate_info call on a conversation that is already bound
   creates one more row and rebinds interview_id to it, leaving the first row
   as it is; no later operation of the conversation sets a row other than the
   one it is bound to to completed. *)
C17_SecondInfoOrphansFirstRow ==
    [][\A a \in Agents :
          /\ (/\ op'.name = "record_candidate_info"
              /\ op'.agent = a
              /\ ~op'.fail
              /\ agent[a].interview_id # NoId)
             => /\ agent'[a].interview_id \notin DOMAIN interview_sessions
                /\ DOMAIN interview_sessions'
                       = DOMAIN interview_sessions \cup {agent'[a].interview_id}
                /\ interview_sessions'[agent[a].interview_id]
                       = interview_sessions[agent[a].interview_id]
          /\ op'.agent = a
             => \A i \in DOMAIN interview_sessions :
                   (/\ i # agent[a].interview_id
                    /\ interview_sessions[i].status # "completed")
                   => interview_sessions'[i].status # "completed"]_vars

(* complete_interview ran after two record_candidate_info calls: the row the
   conversation is bound to is completed, the other one is still in_progress *)
C17_Witness ==
    /\ op.name = "complete_interview"
    /\ ~op.fail
    /\ Bound(op.agent)
    /\ Row(op.agent).status = "completed"
    /\ \E i \in DOMAIN interview_sessions :
          /\ i # agent[op.agent].interview_id
          /\ interview_sessions[i].status = "in_progress"

(* C18: when the store raises during record_candidate_info or
   complete_interview, the caller gets the error, never a success
   acknowledgement, and the three logs and both totals are as before. *)
C18_StoreFailureSurfaces ==
    [][\A a \in Agents :
          (/\ op'.name \in {"record_candidate_info", "complete_interview"}
           /\ op'.agent = a
           /\ op'.fail)
          => /\ ret' = Raised
             /\ agent'[a].questions_asked = agent[a].questions_asked
             /\ agent'[a].responses = agent[a].responses
             /\ agent'[a].notes = agent[a].notes
             /\ agent'[a].technical_score = agent[a].technical_score
             /\ agent'[a].behavioral_score = agent[a].behavioral_score]_vars

(* the store raised during complete_interview of a conversation with a
   scored response *)
C18_Witness ==
    /\ op.name = "complete_interview"
    /\ op.fail
    /\ ret = Raised
    /\ agent[op.agent].responses # <<>>
    /\ agent[op.agent].technical_score # 0

(* C19: create_interview_session returns an id that no existing row has,
   inserts exactly one row, with status in_progress, recording_status
   pending, zero scores and no end_time, and leaves every existing row
   unchanged. *)
C19_CreateSessionInsertsFreshRow ==
    [][(op'.name = "create_interview_session" /\ ~op'.fail)
       => /\ ret' \notin DOMAIN interview_sessions
          /\ DOMAIN interview_sessions' = DOMAIN interview_sessions \cup {ret'}
          /\ interview_sessions'[ret'].status = "in_progress"
          /\ interview_sessions'[ret'].recording_status = "pending"
          /\ interview_sessions'[ret'].technical_score = 0
          /\ interview_sessions'[ret'].behavioral_score = 0
          /\ interview_sessions'[ret'].end_time = NullTime
          /\ \A i \in DOMAIN interview_sessions :
                interview_sessions'[i] = interview_sessions[i]]_vars

(* a second session was created next to a completed one *)
C19_Witness ==
    /\ op.name = "create_interview_session"
    /\ ~op.fail
    /\ interview_sessions[ret].status = "in_progress"
    /\ \E i \in DOMAIN interview_sessions :
          i # ret /\ interview_sessions[i].status = "completed"

(* C20: complete_interview_session with an id that matches no row returns
   false, creates no row and leaves every row unchanged. *)
C20_CompleteUnknownIdReturnsFalse ==
    [][(/\ op'.name = "complete_interview_session"
        /\ ~op'.fail
        /\ op'.arg.interview_id \notin DOMAIN interview_sessions)
       => /\ ret' = FALSE
          /\ interview_sessions' = interview_sessions]_vars

(* complete_interview_session missed while another row existed *)
C20_Witness ==
    /\ op.name = "complete_interview_session"
    /\ ~op.fail
    /\ ret = FALSE
    /\ op.arg.interview_id \notin DOMAIN interview_sessions
    /\ interview_sessions # <<>>

(* C21: get_interview_session called right after complete_interview_session
   of the same existing id returns exactly the scores, impression and data
   that were passed, with status completed and an end_time; called with an
   id that matches no row it returns None, not an error. *)
C21_CompleteThenGetRoundTrip ==
    [][(op'.name = "get_interview_session" /\ ~op'.fail)
       => /\ op'.arg \notin DOMAIN interview_sessions => ret' = Null
          /\ (/\ op.name = "complete_interview_session"
              /\ ~op.fail
              /\ op.arg.interview_id = op'.arg
              /\ op'.arg \in DOMAIN interview_sessions)
             => /\ ret'.interview_id = op'.arg
                /\ ret'.technical_score = op.arg.technical_score
                /\ ret'.behavioral_score = op.arg.behavioral_score
                /\ ret'.overall_impression = op.arg.overall_impression
                /\ ret'.interview_data = op.arg.interview_data
                /\ ret'.status = "completed"
                /\ ret'.end_time # NullTime]_vars

(* a completed session with two different scores was read back *)
C21_Witness ==
    /\ op.name = "get_interview_session"
    /\ ~op.fail
    /\ op.arg \in DOMAIN interview_sessions
    /\ ret.status = "completed"
    /\ ret.technical_score = 12
    /\ ret.behavioral_score = 9

(* C22: cleanup_old_interviews(d) sets status archived on exactly the rows
   whose start_time is before the cutoff and that are not archived, leaves
   every other row as it is, returns the number of rows it archived, and run
   again at once it returns 0 and changes nothing. *)
C22_CleanupArchivesExactlyTheOld ==
    [][op'.name = "cleanup_old_interviews"
       => LET old == {i \in DOMAIN interview_sessions :
                         /\ interview_sessions[i].start_time < now - op'.arg
                         /\ interview_sessions[i].status # "archived"}
          IN /\ DOMAIN interview_sessions' = DOMAIN interview_sessions
             /\ \A i \in old :
                   interview_sessions'[i]
                       = [interview_sessions[i] EXCEPT !.status = "archived"]
             /\ \A i \in DOMAIN interview_sessions \ old :
                   interview_sessions'[i] = interview_sessions[i]
             /\ ret' = Cardinality(old)
             /\ cleanup_old_interviews(interview_sessions', op'.arg, now')
                    = interview_sessions'
             /\ cleanup_old_interviews_result(interview_sessions', op'.arg, now')
                    = 0]_vars

(* a sweep archived one old row and left a row within the window alone *)
C22_Witness ==
    /\ op.name = "cleanup_old_interviews"
    /\ ret = 1
    /\ \E i \in DOMAIN interview_sessions :
          interview_sessions[i].status = "archived"
    /\ \E i \in DOMAIN interview_sessions :
          /\ interview_sessions[i].status # "archived"
          /\ interview_sessions[i].start_time >= now - op.arg

(* C23: under every sequence of store operations and endpoint calls,
   cleanup_old_interviews and DELETE /interview/{id} included, no
   interview_id leaves the interview_sessions table. *)
C23_NoSessionRowIsRemoved ==
    [][DOMAIN interview_sessions \subseteq DOMAIN interview_sessions']_vars

(* the delete endpoint answered for an archived session, which is still in
   the table *)
C23_Witness ==
    /\ op.name = "delete_interview"
    /\ ~op.fail
    /\ op.arg \in DOMAIN interview_sessions
    /\ ret.message = "marked for deletion"
    /\ interview_sessions[op.arg].status = "archived"

(* C24: in every state a row with status in_progress has no end_time and a
   row with status completed has one. *)
C24_EndTimeFollowsStatus ==
    \A i \in DOMAIN interview_sessions :
        /\ interview_sessions[i].status = "in_progress"
           => interview_sessions[i].end_time = NullTime
        /\ interview_sessions[i].status = "completed"
           => interview_sessions[i].end_time # NullTime

(* a completed row next to one in progress *)
C24_Witness ==
    /\ \E i \in DOMAIN interview_sessions :
          /\ interview_sessions[i].status = "completed"
          /\ interview_sessions[i].end_time # NullTime
    /\ \E i \in DOMAIN interview_sessions :
          /\ interview_sessions[i].status = "in_progress"
          /\ interview_sessions[i].end_time = NullTime

(* C25: in every state a recording row has an s3_url only if its status is
   completed. *)
C25_UrlOnlyWhenCompleted ==
    \A r \in DOMAIN recordings :
        recordings[r].s3_url # Null => recordings[r].status = "completed"

(* C26: once a recording's status is completed or failed, no later call
   changes its status, end_time, s3_url, file_size or duration_seconds. *)
C26_TerminalRecordingIsImmutable ==
    [][\A r \in DOMAIN recordings :
          recordings[r].status \in {"completed", "failed"}
          => /\ recordings'[r].status = recordings[r].status
             /\ recordings'[r].end_time = recordings[r].end_time
             /\ recordings'[r].s3_url = recordings[r].s3_url
             /\ recordings'[r].file_size = recordings[r].file_size
             /\ recordings'[r].duration_seconds
                    = recordings[r].duration_seconds]_vars

(* C27: in every state, for every session whose recording_id names a
   recording, the session's recording_status is that recording's status and
   its recording_url is that recording's s3_url. *)
C27_DenormalizedFieldsAgree ==
    \A i \in DOMAIN interview_sessions :
        interview_sessions[i].recording_id \in DOMAIN recordings
        => /\ interview_sessions[i].recording_status
                  = recordings[interview_sessions[i].recording_id].status
           /\ interview_sessions[i].recording_url
                  = recordings[interview_sessions[i].recording_id].s3_url

(* C28: in every state the interview_id of every recording row and of every
   transcript row is the id of a session row. *)
C28_ReferentialIntegrity ==
    /\ \A r \in DOMAIN recordings :
          recordings[r].interview_id \in DOMAIN interview_sessions
    /\ \A x \in DOMAIN transcripts :
          transcripts[x].interview_id \in DOMAIN interview_sessions

(* C29: the report of get_interview_analytics counts the rows with status
   completed (of the position asked for, when one is given) and is the
   report over those rows alone: rows in progress or archived change neither
   the count nor the averages; with no such row it is the all-zero report
   with an empty position breakdown. *)
C29_AnalyticsCountsCompletedOnly ==
    (op.name = "get_interview_analytics" /\ ~op.fail)
    => LET counted == {i \in DOMAIN interview_sessions :
                          /\ interview_sessions[i].status = "completed"
                          /\ op.arg \notin {Null, ""}
                             => interview_sessions[i].position = op.arg}
           others == DOMAIN interview_sessions \ counted
       IN /\ ret.total_interviews = Cardinality(counted)
          /\ ret = get_interview_analytics(
                       [i \in counted |-> interview_sessions[i]],
                       recordings, op.arg)
          /\ \A i \in counted :
                interview_sessions[i].position \in DOMAIN ret.position_breakdown
          /\ counted = {}
             => /\ ret.average_technical_score = 0
                /\ ret.average_behavioral_score = 0
                /\ DOMAIN ret.position_breakdown = {}

(* a report over one completed row, with an archived and no other completed
   row in the table *)
C29_Witness ==
    /\ op.name = "get_interview_analytics"
    /\ ~op.fail
    /\ ret.total_interviews = 1
    /\ ret.average_technical_score = 1200
    /\ \E i \in DOMAIN interview_sessions :
          interview_sessions[i].status = "archived"

(* C30: in a report over at least one completed session, total_storage_mb
   is the sum of file_size over the recordings with status completed. *)
C30_StorageSumsCompletedRecordings ==
    (op.name = "get_interview_analytics" /\ ~op.fail /\ ret.total_interviews > 0)
    => ret.recording_stats.total_storage_mb
           = LET done == {r \in DOMAIN recordings :
                             recordings[r].status = "completed"}
             IN Round2(Sum([r \in done |->
                               FileSizeOrZero(recordings[r].file_size)], done),
                       BytesPerMb)

(* the number of entries of a log whose phase tag is in `phases` *)
RECURSIVE CountTagged(_, _)
CountTagged(log, phases) ==
    IF log = <<>>
    THEN 0
    ELSE (IF Head(log).phase \in phases THEN 1 ELSE 0)
         + CountTagged(Tail(log), phases)

(* get_interview_status reports the length of the question log and the
   per-phase counter *)
StatusReportsLogAndCounter ==
    op.name = "get_interview_status"
    => /\ ret.questions_asked = Len(agent[op.agent].questions_asked)
       /\ ret.questions_in_current_phase = agent[op.agent].question_count

(* C32 as stated: in every state the per-phase counter, which
   get_interview_status reports as questions_in_current_phase, is the number
   of question-log entries tagged with the current phase, and
   questions_asked is the length of the question log. *)
C32_CounterCountsCurrentPhase ==
    /\ StatusReportsLogAndCounter
    /\ \A a \in Agents :
          agent[a].question_count
              = CountTagged(agent[a].questions_asked, {Phase(a)})

(* C32 amended: get_interview_status reports the length of the question log
   and the counter; the counter is the number of entries tagged with the
   current phase in INTRODUCTION, TECHNICAL and BEHAVIORAL, the number of
   entries tagged BEHAVIORAL or CLOSING in CLOSING (advance does not reset it
   there), and in COMPLETED at least the number of entries tagged COMPLETED
   and at most the length of the log. *)
C32_CounterCountsSinceLastReset ==
    /\ StatusReportsLogAndCounter
    /\ \A a \in Agents :
          /\ Phase(a) \in {INTRODUCTION, TECHNICAL, BEHAVIORAL}
             => agent[a].question_count
                    = CountTagged(agent[a].questions_asked, {Phase(a)})
          /\ Phase(a) = CLOSING
             => agent[a].question_count
                    = CountTagged(agent[a].questions_asked, {BEHAVIORAL, CLOSING})
          /\ Phase(a) = COMPLETED
             => /\ agent[a].question_count
                       >= CountTagged(agent[a].questions_asked, {COMPLETED})
                /\ agent[a].question_count <= Len(agent[a].questions_asked)

(* the status was read in CLOSING after a question asked in BEHAVIORAL: the
   counter is 1 and no entry is tagged CLOSING *)
C32_Witness ==
    /\ op.name = "get_interview_status"
    /\ Phase(op.agent) = CLOSING
    /\ ret.questions_in_current_phase = 1
    /\ CountTagged(agent[op.agent].questions_asked, {BEHAVIORAL}) = 1

(* C33: record_question, record_response, add_interviewer_note,
   advance_interview_phase and get_interview_status leave every persisted row
   unchanged; as long as complete_interview has not run on a conversation,
   the row it is bound to has zero scores, no interview_data and no
   overall_impression. *)
C33_OnlyInfoAndCompleteWrite ==
    /\ [][op'.name \in {"record_question", "record_response",
                        "add_interviewer_note", "advance_interview_phase",
                        "get_interview_status"}
          => interview_sessions' = interview_sessions]_vars
    /\ [](\A a \in Agents :
            (Bound(a) /\ agent[a].overall_impression = "")
            => /\ Row(a).overall_impression = Null
               /\ Row(a).technical_score = 0
               /\ Row(a).behavioral_score = 0
               /\ Row(a).interview_data = Null)

(* a bound conversation has scored a response and advanced to COMPLETED
   without complete_interview *)
C33_Witness ==
    /\ op.name = "advance_interview_phase"
    /\ Bound(op.agent)
    /\ Phase(op.agent) = COMPLETED
    /\ agent[op.agent].overall_impression = ""
    /\ agent[op.agent].technical_score # 0
    /\ Row(op.agent).technical_score = 0

(* C34: record_question in a phase other than COMPLETED is not rejected: it
   appends one entry tagged with the current phase at the end of the
   question log, adds one to the per-phase counter and changes nothing else
   of the conversation; add_interviewer_note appends one entry tagged with
   the current phase to the note log and changes nothing else. *)
C34_QuestionAndNoteAppend ==
    [][\A a \in Agents :
          /\ (/\ op'.name = "record_question"
              /\ op'.agent = a
              /\ Phase(a) # COMPLETED)
             => /\ ret' = "Question recorded."
                /\ \E q \in QuestionTexts :
                      agent'[a] =
                          [agent[a] EXCEPT
                              !.questions_asked =
                                  Append(@, [question |-> q, phase |-> Phase(a)]),
                              !.question_count = @ + 1]
          /\ (op'.name = "add_interviewer_note" /\ op'.agent = a)
             => /\ ret' = "Note added."
                /\ \E n \in NoteTexts :
                      agent'[a] =
                          [agent[a] EXCEPT
                              !.notes = Append(@, [note |-> n, phase |-> Phase(a)])]]_vars

(* a question was recorded in BEHAVIORAL after a scored response *)
C34_Witness ==
    /\ op.name = "record_question"
    /\ Phase(op.agent) = BEHAVIORAL
    /\ agent[op.agent].question_count = 1
    /\ agent[op.agent].responses # <<>>
    /\ agent[op.agent].questions_asked[1].phase = BEHAVIORAL

(* log is an initial part of log2 and every entry after it has the tag phase *)
Extends(log2, log, phase) ==
    /\ Len(log2) >= Len(log)
    /\ SubSeq(log2, 1, Len(log)) = log
    /\ \A k \in Len(log) + 1 .. Len(log2) : log2[k].phase = phase

(* the phase tags of a log never step back in the order of InterviewPhase *)
TagsInPhaseOrder(log) ==
    \A k \in 1 .. Len(log) - 1 :
        PhaseIndex(log[k].phase) <= PhaseIndex(log[k + 1].phase)

(* C35: no operation removes, reorders or alters an entry of the question,
   response or note log, every new entry carries the phase that is current
   when it is recorded, and within each log the phase tags are in
   non-decreasing phase order. *)
C35_LogsAppendOnlyInPhaseOrder ==
    /\ [][\A a \in Agents :
            /\ Extends(agent'[a].questions_asked, agent[a].questions_asked, Phase(a))
            /\ Extends(agent'[a].responses, agent[a].responses, Phase(a))
            /\ Extends(agent'[a].notes, agent[a].notes, Phase(a))]_vars
    /\ [](\A a \in Agents :
            /\ TagsInPhaseOrder(agent[a].questions_asked)
            /\ TagsInPhaseOrder(agent[a].responses)
            /\ TagsInPhaseOrder(agent[a].notes))

(* a response was recorded in a later phase than the one before it *)
C35_Witness ==
    /\ op.name = "record_response"
    /\ Len(agent[op.agent].responses) = 2
    /\ agent[op.agent].responses[1].phase = TECHNICAL
    /\ agent[op.agent].responses[2].phase = CLOSING

(* C36: should_advance_phase returns true exactly when the per-phase question
   counter is at least the ceiling, which is 5, and the phase is not
   COMPLETED; it changes neither the phase nor the counter, nor anything else
   of the conversation. *)
C36_ShouldAdvanceIsAdvisory ==
    [][op'.name = "should_advance_phase"
       => /\ agent[op'.agent].max_questions_per_phase = 5
          /\ ret' = (/\ agent[op'.agent].question_count >= 5
                     /\ agent[op'.agent].current_phase # COMPLETED)
          /\ agent' = agent]_vars

(* the answer was true with the counter exactly at the ceiling *)
C36_Witness ==
    /\ op.name = "should_advance_phase"
    /\ ret = TRUE
    /\ agent[op.agent].question_count = 5
    /\ agent[op.agent].current_phase = BEHAVIORAL

(* C31: an operation invoked on one conversation changes no other
   conversation's in-memory state and changes no persisted session row other
   than the one its own interview_id names. *)
C31_ConversationsAreIndependent ==
    [][\A a \in Agents :
          op'.agent = a
          => /\ \A b \in Agents \ {a} : agent'[b] = agent[b]
             /\ \A i \in DOMAIN interview_sessions :
                   i # agent[a].interview_id
                   => /\ i \in DOMAIN interview_sessions'
                      /\ interview_sessions'[i] = interview_sessions[i]]_vars

(* one conversation completed while the other, bound to its own row, had a
   response recorded and its row still in progress *)
C31_Witness ==
    /\ op.name = "complete_interview"
    /\ ~op.fail
    /\ \A a \in Agents : Bound(a)
    /\ \E b \in Agents \ {op.agent} :
          /\ agent[b].responses # <<>>
          /\ Row(b).status = "in_progress"
    /\ Row(op.agent).status = "completed"

(* C37: update_recording_status returns true exactly when a recording row
   with the given recording_id exists, and false when none exists; stated
   here for the stores in which every recording belongs to a session row,
   among them the ones where that session has since been pointed at a newer
   recording. *)
C37_UpdateReturnsRecordingExists ==
    [][(/\ op'.name = "update_recording_status"
        /\ ~op'.fail
        /\ \A r \in DOMAIN recordings :
              recordings[r].interview_id \in DOMAIN interview_sessions)
       => ret' = (op'.arg.recording_id \in DOMAIN recordings)]_vars

(* C38: get_recent_interviews(limit, include_recordings) returns a list in
   which every session occurs at most once, in non-increasing start_time
   order, of length min(limit, number of session rows), in every store state
   and for both values of include_recordings. *)
C38_RecentListsEachSessionOnce ==
    (op.name = "get_recent_interviews" /\ ~op.fail)
    => /\ \A k, l \in 1 .. Len(ret) :
             k # l => ret[k].interview_id # ret[l].interview_id
       /\ \A k \in 1 .. Len(ret) - 1 : ret[k].start_time >= ret[k + 1].start_time
       /\ Len(ret) = LimitRows(Cardinality(DOMAIN interview_sessions), op.arg.limit)

====
